---- MODULE Spec2Model ----
(***************************************************************************)
(* cargo-license-hound: the license catalog (license.rs), the GitHub       *)
(* probers (github.rs) and the report loop (main.rs).                      *)
(*                                                                         *)
(* Rust strings are TLA+ strings; Option<T> is [some |-> FALSE] or         *)
(* [some |-> TRUE, v |-> x]; Result<T, E> is [ok |-> TRUE, v |-> x] or     *)
(* [ok |-> FALSE, err |-> e].                                              *)
(***************************************************************************)
EXTENDS Integers, Sequences, FiniteSets, TLC

VARIABLES packages, idx, pc, license_reports, http, arg, ret

vars == <<packages, idx, pc, license_reports, http, arg, ret>>

(***************************************************************************)
(* Bounds of the model.                                                    *)
(***************************************************************************)
MaxPkgs == 2

MaxDeclParts == 2

MaxFiles == 2

MaxTextParts == 4

MaxRawScript == 2

RECURSIVE SeqsUpTo(_, _)
SeqsUpTo(S, n) ==
    IF n = 0 THEN {<<>>}
    ELSE SeqsUpTo(S, n - 1)
         \cup {Append(q, x) : q \in {r \in SeqsUpTo(S, n - 1) : Len(r) = n - 1}, x \in S}

None == [some |-> FALSE]

Some(x) == [some |-> TRUE, v |-> x]

Ok(x) == [ok |-> TRUE, v |-> x]

Err(e) == [ok |-> FALSE, err |-> e]

(***************************************************************************)
(* std::str                                                                *)
(***************************************************************************)
CharAt(s, i) == SubSeq(s, i, i)

starts_with(s, p) == Len(s) >= Len(p) /\ SubSeq(s, 1, Len(p)) = p

\* str::find: the index (1-based) of the first occurrence, 0 for None.
find(s, p) ==
    LET hits == {i \in 1..(Len(s) - Len(p) + 1) : SubSeq(s, i, i + Len(p) - 1) = p}
    IN IF hits = {} THEN 0 ELSE CHOOSE i \in hits : \A j \in hits : i <= j

contains(s, p) == find(s, p) # 0

WhiteSpace == {" ", "\n", "\r", "\t"}

\* str::trim: leading and trailing whitespace removed.
trim(s) ==
    LET keep == {i \in 1..Len(s) : CharAt(s, i) \notin WhiteSpace}
    IN IF keep = {} THEN ""
       ELSE LET lo == CHOOSE i \in keep : \A j \in keep : i <= j
                hi == CHOOSE i \in keep : \A j \in keep : j <= i
            IN SubSeq(s, lo, hi)

UpperCase == "ABCDEFGHIJKLMNOPQRSTUVWXYZ"

LowerCase == "abcdefghijklmnopqrstuvwxyz"

lower(c) == LET k == find(UpperCase, c) IN IF k = 0 THEN c ELSE CharAt(LowerCase, k)

\* str::to_lowercase, character by character (the halves are independent).
RECURSIVE to_lowercase(_)
to_lowercase(s) ==
    IF Len(s) = 0 THEN ""
    ELSE IF Len(s) = 1 THEN lower(s)
    ELSE LET h == Len(s) \div 2
         IN to_lowercase(SubSeq(s, 1, h)) \o to_lowercase(SubSeq(s, h + 1, Len(s)))

\* str::lines: split at "\n", a "\r" before it dropped, no empty last line.
RECURSIVE lines(_)
lines(s) ==
    IF s = "" THEN <<>>
    ELSE LET i == find(s, "\n")
         IN IF i = 0 THEN <<s>>
            ELSE LET l == SubSeq(s, 1, i - 1)
                     l2 == IF Len(l) > 0 /\ CharAt(l, Len(l)) = "\r"
                           THEN SubSeq(l, 1, Len(l) - 1) ELSE l
                 IN <<l2>> \o lines(SubSeq(s, i + 1, Len(s)))

(***************************************************************************)
(* license.rs: the license catalog                                         *)
(***************************************************************************)
LicenseId == {"Bsd3Clause", "Mit", "Mpl2"}

LICENSE_BASE_NAMES == <<"LICENSE", "COPYING", "LICENCE">>

LICENSE_EXTENSIONS == <<"", ".txt">>

suffixes(id) == IF id = "Mit" THEN <<"-MIT">> ELSE <<>>

\* A catalog whose codes are written in lower case.
spdx_id_lowercase(id) ==
    CASE id = "Mit" -> "mit"
      [] id = "Bsd3Clause" -> "bsd-3-clause"
      [] id = "Mpl2" -> "mpl-2.0"

spdx_id(id) ==
    CASE id = "Mit" -> "MIT"
      [] id = "Bsd3Clause" -> "BSD-3-Clause"
      [] id = "Mpl2" -> "MPL-2.0"

\* A product that advances its first iterator fastest.
Product_inner_major(xs, ys) ==
    [k \in 1..(Len(xs) * Len(ys)) |->
        <<xs[((k - 1) % Len(xs)) + 1], ys[((k - 1) \div Len(xs)) + 1]>>]

\* itertools::Product: for every element of the outer iterator, a fresh
\* pass over the inner one.
RECURSIVE Product(_, _)
Product(xs, ys) ==
    IF xs = <<>> THEN <<>>
    ELSE [j \in 1..Len(ys) |-> <<Head(xs), ys[j]>>] \o Product(Tail(xs), ys)

\* itertools::ConsTuples: ((a, b), c) flattened to (a, b, c).
ConsTuples(ps) == [i \in 1..Len(ps) |-> <<ps[i][1][1], ps[i][1][2], ps[i][2]>>]

guess_filenames(id) ==
    ConsTuples(Product(Product(LICENSE_BASE_NAMES, suffixes(id) \o <<"">>),
                       LICENSE_EXTENSIONS))

(***************************************************************************)
(* github.rs                                                               *)
(*                                                                         *)
(* A response of get(url).send() is [sent |-> FALSE] (the request failed)  *)
(* or [sent |-> TRUE, status |-> n, body |-> b].  Every prober returns     *)
(* its result, the URLs it requested in order, and its diagnostics.        *)
(***************************************************************************)
\* "." of the pattern: any character but a line break.
AnyChar(c) == Len(c) = 1 /\ c # "\n"

\* The first position at or after i whose character is in stop, Len(s) + 1
\* when there is none: where a greedy negated class stops.
ClassEnd(s, i, stop) ==
    LET ends == {j \in i..Len(s) : CharAt(s, j) \in stop}
    IN IF ends = {} THEN Len(s) + 1 ELSE CHOOSE j \in ends : \A k \in ends : j <= k

\* URL_SCHEMA.captures for ^https://github.com/([^/]+)/([^/.]+)(.git)?/?$
\* (the dot of "github.com" is unescaped too).
URL_SCHEMA_captures(url) ==
    IF ~(Len(url) >= 19 /\ SubSeq(url, 1, 14) = "https://github"
         /\ AnyChar(CharAt(url, 15)) /\ SubSeq(url, 16, 19) = "com/")
    THEN None
    ELSE LET oe == ClassEnd(url, 20, {"/"})
             re == ClassEnd(url, oe + 1, {"/", "."})
             rest == SubSeq(url, re, Len(url))
             tail == IF Len(rest) >= 4 /\ AnyChar(CharAt(rest, 1)) /\ SubSeq(rest, 2, 4) = "git"
                     THEN SubSeq(rest, 5, Len(rest)) ELSE rest
         IN IF oe > 20 /\ oe <= Len(url) /\ re > oe + 1 /\ tail \in {"", "/"}
            THEN Some([owner |-> SubSeq(url, 20, oe - 1), repo |-> SubSeq(url, oe + 1, re - 1)])
            ELSE None

B64Alphabet == "ABCDEFGHIJKLMNOPQRSTUVWXYZabcdefghijklmnopqrstuvwxyz0123456789+/"

\* The characters of bytes 32..95 and of bytes 97..126, in order.
AsciiLow == " !\"#$%&'()*+,-./0123456789:;<=>?@ABCDEFGHIJKLMNOPQRSTUVWXYZ[\\]^_"

AsciiHigh == "abcdefghijklmnopqrstuvwxyz{|}~"

RECURSIVE strip_whitespace(_)
strip_whitespace(s) ==
    IF Len(s) = 0 THEN ""
    ELSE IF Len(s) = 1 THEN (IF s \in WhiteSpace THEN "" ELSE s)
    ELSE LET h == Len(s) \div 2
         IN strip_whitespace(SubSeq(s, 1, h)) \o strip_whitespace(SubSeq(s, h + 1, Len(s)))

Sextet(c) == find(B64Alphabet, c) - 1

\* One group of four symbols: its bytes, or an error.  Padding is accepted
\* in the last group only.
decode_quad(q, last) ==
    LET a == Sextet(CharAt(q, 1))
        b == Sextet(CharAt(q, 2))
        c == Sextet(CharAt(q, 3))
        d == Sextet(CharAt(q, 4))
        b1 == a * 4 + (b \div 16)
        b2 == (b % 16) * 16 + (c \div 4)
        b3 == (c % 4) * 64 + d
    IN IF a < 0 \/ b < 0 THEN Err("symbol")
       ELSE IF last /\ SubSeq(q, 3, 4) = "==" THEN Ok(<<b1>>)
       ELSE IF c < 0 THEN Err("symbol")
       ELSE IF last /\ CharAt(q, 4) = "=" THEN Ok(<<b1, b2>>)
       ELSE IF d < 0 THEN Err("symbol")
       ELSE Ok(<<b1, b2, b3>>)

\* The groups of s from group k on, in order; the first error ends it.
RECURSIVE decode_quads(_, _)
decode_quads(s, k) ==
    IF 4 * k > Len(s) THEN Ok(<<>>)
    ELSE LET q == decode_quad(SubSeq(s, 4 * k - 3, 4 * k), 4 * k = Len(s))
         IN IF ~q.ok THEN q
            ELSE LET r == decode_quads(s, k + 1)
                 IN IF ~r.ok THEN r ELSE Ok(q.v \o r.v)

\* base64::decode_config(input, base64::MIME): whitespace is skipped; the
\* inputs of the model are padded to whole groups or hold a bad symbol.
base64_decode(input) ==
    LET s == strip_whitespace(input)
    IN IF Len(s) % 4 # 0 THEN Err("length") ELSE decode_quads(s, 1)

Chr(b) ==
    CASE b = 9 -> "\t"
      [] b = 10 -> "\n"
      [] b = 13 -> "\r"
      [] b >= 32 /\ b <= 95 -> CharAt(AsciiLow, b - 31)
      [] b >= 97 /\ b <= 126 -> CharAt(AsciiHigh, b - 96)

\* String::from_utf8 (below) on bytes that are printable ASCII, tab, line breaks or
\* 0xF8..0xFF (never valid in UTF-8): the byte strings of the model hold no
\* multi-byte sequence.
RECURSIVE Chars(_)
Chars(bytes) ==
    IF Len(bytes) = 0 THEN ""
    ELSE IF Len(bytes) = 1 THEN Chr(bytes[1])
    ELSE LET h == Len(bytes) \div 2
         IN Chars(SubSeq(bytes, 1, h)) \o Chars(SubSeq(bytes, h + 1, Len(bytes)))

from_utf8(bytes) ==
    IF \E i \in 1..Len(bytes) : bytes[i] >= 128 THEN Err("utf8") ELSE Ok(Chars(bytes))

\* Encoding::decode, for Encoding::Base64.
Encoding_decode(input) ==
    LET x == base64_decode(input)
    IN IF ~x.ok THEN Err("decode") ELSE
       LET t == from_utf8(x.v) IN IF ~t.ok THEN Err("decode") ELSE Ok(t.v)

\* A document type whose encoding is any string.
parse_LicenseDocument_any_encoding(body) ==
    IF body.json
    THEN Some([download_url |-> body.download_url, content |-> body.content,
               spdx_id |-> body.spdx_id])
    ELSE None

\* serde_json::from_reader::<LicenseDocument>: the body must be a JSON
\* object with the four fields, and "base64" the only Encoding variant.
parse_LicenseDocument(body) ==
    IF body.json /\ body.encoding = "base64"
    THEN Some([download_url |-> body.download_url, content |-> body.content,
               spdx_id |-> body.spdx_id])
    ELSE None

is_success(status) == status >= 200 /\ status <= 299

license_url(owner, repo) == "https://api.github.com/repos/" \o owner \o "/" \o repo \o "/license"

license_file_from_license_api(owner, repo, package_name, chosen_license, resp) ==
    LET url == license_url(owner, repo)
        out(r, d) == [result |-> r, requests |-> <<url>>, diag |-> d]
    IN IF ~resp.sent THEN out(None, <<>>)
       ELSE IF resp.status = 403 THEN out(None, <<"forbidden">>)
       ELSE IF resp.status = 404 THEN out(None, <<>>)
       ELSE IF ~is_success(resp.status) THEN out(None, <<"unexpected status">>)
       ELSE LET doc == parse_LicenseDocument(resp.body)
            IN IF ~doc.some THEN out(None, <<>>)
               ELSE IF spdx_id(chosen_license) # doc.v.spdx_id
                    THEN out(None, <<"different licenses">>)
               ELSE LET text == Encoding_decode(doc.v.content)
                    IN IF ~text.ok THEN out(None, <<>>)
                       ELSE out(Some(<<[tag |-> "GitHubApi", url |-> doc.v.download_url],
                                       text.v>>), <<>>)

\* A fetch that takes the body of every response but a 403.
get_license_file_no_status_check(url, resp) ==
    IF ~resp.sent THEN [result |-> None, diag |-> <<>>]
    ELSE IF resp.status = 403 THEN [result |-> None, diag |-> <<"forbidden">>]
    ELSE [result |-> IF resp.body.readable THEN Some(resp.body.text) ELSE None,
          diag |-> <<>>]

get_license_file(url, resp) ==
    IF ~resp.sent THEN [result |-> None, diag |-> <<>>]
    ELSE IF resp.status = 403 THEN [result |-> None, diag |-> <<"forbidden">>]
    ELSE IF is_success(resp.status)
         THEN [result |-> IF resp.body.readable THEN Some(resp.body.text) ELSE None,
               diag |-> <<>>]
    ELSE [result |-> None, diag |-> <<>>]

raw_url(owner, repo, c) ==
    "https://raw.githubusercontent.com/" \o owner \o "/" \o repo \o "/master/"
        \o c[1] \o c[2] \o c[3]

\* The body the raw host sends with a 404.
NotFoundBody == [readable |-> TRUE, text |-> "404: Not Found"]

\* The response of the raw host to the k-th candidate requested: the
\* scripted one, and 404 beyond the script.
raw_response(raw, k) ==
    IF k <= Len(raw) THEN raw[k]
    ELSE [sent |-> TRUE, status |-> 404, body |-> NotFoundBody]

\* The for loop of license_file_from_github_repo, from candidate k on.
RECURSIVE github_repo_from(_, _, _, _, _)
github_repo_from(owner, repo, cands, k, raw) ==
    IF k > Len(cands) THEN [result |-> None, requests |-> <<>>, diag |-> <<>>]
    ELSE LET url == raw_url(owner, repo, cands[k])
             license == get_license_file(url, raw_response(raw, k))
         IN IF license.result.some
            THEN [result |-> Some(<<[tag |-> "GitHubRepo", url |-> url], license.result.v>>),
                  requests |-> <<url>>, diag |-> license.diag]
            ELSE LET rest == github_repo_from(owner, repo, cands, k + 1, raw)
                 IN [result |-> rest.result, requests |-> <<url>> \o rest.requests,
                     diag |-> license.diag \o rest.diag]

license_file_from_github_repo(owner, repo, package_name, chosen_license, raw) ==
    github_repo_from(owner, repo, guess_filenames(chosen_license), 1, raw)

\* net is [api |-> the response of the license endpoint, raw |-> the script
\* of the raw host].
license_file_from_github_core(repo_url, package_name, chosen_license, net) ==
    IF ~repo_url.some THEN [result |-> None, requests |-> <<>>, diag |-> <<>>]
    ELSE LET re_captures == URL_SCHEMA_captures(repo_url.v)
         IN IF ~re_captures.some THEN [result |-> None, requests |-> <<>>, diag |-> <<>>]
            ELSE LET owner == re_captures.v.owner
                     repo == re_captures.v.repo
                     a == license_file_from_license_api(owner, repo, package_name,
                                                        chosen_license, net.api)
                 IN IF a.result.some THEN a
                    ELSE LET r == license_file_from_github_repo(owner, repo, package_name,
                                                                chosen_license, net.raw)
                         IN [result |-> r.result, requests |-> a.requests \o r.requests,
                             diag |-> a.diag \o r.diag]

(***************************************************************************)
(* main.rs                                                                 *)
(***************************************************************************)
\* main.rs has its own LicenseId, with the same variants and suffixes.
LicenseId_suffixes(id) == IF id = "Mit" THEN <<"-MIT">> ELSE <<>>

\* fs::File::open + read_to_string on a file of the package directory.
read_file(files, name) ==
    IF name \in DOMAIN files /\ files[name].readable
    THEN Ok(files[name].text)
    ELSE Err("io")

strip_comment(x) == IF starts_with(x, "//") THEN SubSeq(x, 3, Len(x)) ELSE x

\* A closure that merges two lines without the space between them.
coalesce_fn_no_space(a, b) ==
    IF Len(b) = 0 THEN [merged |-> FALSE]
    ELSE [merged |-> TRUE, v |-> a \o b]

\* The closure given to coalesce: Err((a, b)) keeps both, Ok(x) merges.
coalesce_fn(a, b) ==
    IF Len(b) = 0 THEN [merged |-> FALSE]
    ELSE IF Len(a) = 0 THEN [merged |-> TRUE, v |-> b]
    ELSE [merged |-> TRUE, v |-> a \o " " \o b]

\* itertools::Coalesce: `last` is the pending element, `rest` the iterator.
RECURSIVE coalesce_from(_, _)
coalesce_from(last, rest) ==
    IF rest = <<>> THEN <<last>>
    ELSE LET r == coalesce_fn(last, Head(rest))
         IN IF r.merged THEN coalesce_from(r.v, Tail(rest))
            ELSE <<last>> \o coalesce_from(Head(rest), Tail(rest))

coalesce(xs) == IF xs = <<>> THEN <<>> ELSE coalesce_from(Head(xs), Tail(xs))

recover_copyright_notice(license_text) ==
    LET ls == lines(license_text)
        mapped == [i \in 1..Len(ls) |-> trim(strip_comment(ls[i]))]
        merged == coalesce(mapped)
        hits == {i \in 1..Len(merged) : contains(to_lowercase(merged[i]), "copyright")}
    IN IF hits = {}
       THEN Err([tag |-> "UnableToRecoverAttribution", v |-> license_text])
       ELSE Ok(merged[CHOOSE i \in hits : \A j \in hits : i <= j])

manifest_path(package) == "/" \o package.name \o "-" \o package.version \o "/Cargo.toml"

\* Path::with_file_name("") of the manifest path: the package directory.
manifest_dir(package) == "/" \o package.name \o "-" \o package.version \o "/"

candidate_base_names == <<"LICENSE", "LICENCE">>

\* The candidate names in the order of the two nested loops: suffix outer,
\* base name inner.
hound_candidates(chosen_license) ==
    LET sfx == LicenseId_suffixes(chosen_license) \o <<"">>
        n == Len(candidate_base_names)
    IN [k \in 1..(Len(sfx) * n) |->
            candidate_base_names[((k - 1) % n) + 1] \o sfx[((k - 1) \div n) + 1]]

\* A resolver that asks GitHub before it looks into the package directory.
hound_license_file_github_first(package, chosen_license) ==
    LET g == license_file_from_github_core(package.crate.repository, package.name,
                                           chosen_license, package.net)
        cands == hound_candidates(chosen_license)
        hits == {k \in 1..Len(cands) : read_file(package.crate.files, cands[k]).ok}
    IN IF g.result.some THEN [result |-> Ok(g.result.v), requests |-> g.requests]
       ELSE IF hits = {}
       THEN [result |-> Err([tag |-> "UnableToRecoverLicenseFile", v |-> manifest_dir(package)]),
             requests |-> g.requests]
       ELSE LET k == CHOOSE k \in hits : \A j \in hits : k <= j
            IN [result |-> Ok(<<[tag |-> "Crate", name |-> cands[k]],
                                read_file(package.crate.files, cands[k]).v>>),
                requests |-> g.requests]

\* The result, and the HTTP requests issued on the way: this function reads
\* files only and calls nothing of github.rs.
hound_license_file(package, chosen_license) ==
    LET cands == hound_candidates(chosen_license)
        hits == {k \in 1..Len(cands) : read_file(package.crate.files, cands[k]).ok}
    IN IF hits = {}
       THEN [result |-> Err([tag |-> "UnableToRecoverLicenseFile", v |-> manifest_dir(package)]),
             requests |-> <<>>]
       ELSE LET k == CHOOSE k \in hits : \A j \in hits : k <= j
            IN [result |-> Ok(<<[tag |-> "Crate", name |-> cands[k]],
                                read_file(package.crate.files, cands[k]).v>>),
                requests |-> <<>>]

\* A chain that tests the identifiers in another order.
choose_license_bsd_first(spdx_license) ==
    IF find(spdx_license, "BSD-3-Clause") # 0 THEN Ok("Bsd3Clause")
    ELSE IF find(spdx_license, "MPL-2.0") # 0 THEN Ok("Mpl2")
    ELSE IF find(spdx_license, "MIT") # 0 THEN Ok("Mit")
    ELSE Err([tag |-> "UnacceptableLicense", v |-> spdx_license])

\* The if/else chain of chase that picks the LicenseId of a declaration.
choose_license(spdx_license) ==
    IF find(spdx_license, "MIT") # 0 THEN Ok("Mit")
    ELSE IF find(spdx_license, "MPL-2.0") # 0 THEN Ok("Mpl2")
    ELSE IF find(spdx_license, "BSD-3-Clause") # 0 THEN Ok("Bsd3Clause")
    ELSE Err([tag |-> "UnacceptableLicense", v |-> spdx_license])

or(a, b) == IF a.some THEN a ELSE b

\* The unwraps of chase: load, update and download of the package source.
chase_panics(package) == package.source.some /\ ~package.crate.fetched

\* chase, for a package whose source loads: the conclusion and the HTTP
\* requests issued.
chase(package) ==
    IF ~package.source.some
    THEN [conclusion |-> Err([tag |-> "NoSource"]), requests |-> <<>>]
    ELSE LET metadata == package.crate
         IN IF ~metadata.license.some
            THEN [conclusion |-> Err([tag |-> "LicenseNotDeclared", v |-> manifest_path(package)]),
                  requests |-> <<>>]
            ELSE LET spdx_license == metadata.license.v
                     chosen == choose_license(spdx_license)
                 IN IF ~chosen.ok
                    THEN [conclusion |-> Err(chosen.err), requests |-> <<>>]
                    ELSE LET h == hound_license_file(package, chosen.v)
                         IN IF ~h.result.ok
                            THEN [conclusion |-> Err(h.result.err), requests |-> h.requests]
                            ELSE LET notice == recover_copyright_notice(h.result.v[2])
                                 IN IF ~notice.ok
                                    THEN [conclusion |-> Err(notice.err), requests |-> h.requests]
                                    ELSE [conclusion |-> Ok(
                                            [chosen_license |-> chosen.v,
                                             copyright_notice |-> notice.v,
                                             full_spdx_license |-> spdx_license,
                                             full_license_document |-> h.result.v[2],
                                             license_source |-> h.result.v[1],
                                             link |-> or(or(metadata.homepage, metadata.repository),
                                                         metadata.documentation)]),
                                          requests |-> h.requests]

(***************************************************************************)
(* The responses of the two GitHub hosts.                                  *)
(***************************************************************************)
\* base64 (MIME, wrapped) of "The MIT License (MIT)\n\nCopyright (c) 2013 Ben
\* Balter\n\n": the head of EXAMPLE_RESPONSE.
B64Wrapped == "VGhlIE1JVCBMaWNlbnNlIChNSVQpCgpDb3B5cmlnaHQgKGMpIDIwMTMgQmVu\nIEJhbHRlcgoK\n"

\* Well-formed contents, a content with a symbol outside the alphabet, and
\* the byte 0xFF.
Contents == {B64Wrapped, "TUlU", "TU!U", "/w=="}

DownloadUrl == "https://raw.githubusercontent.com/o/r/master/LICENSE?lab=true"

ApiBodies ==
    {[json |-> FALSE]}
    \cup {[json |-> TRUE, download_url |-> DownloadUrl, content |-> c, encoding |-> e,
           spdx_id |-> i] :
            c \in Contents, e \in {"base64", "utf-8"},
            i \in {"MIT", "mit", "BSD-3-Clause", "MPL-2.0"}}

ErrorBody == [json |-> FALSE]

ApiResponses ==
    {[sent |-> FALSE]}
    \cup {[sent |-> TRUE, status |-> st, body |-> ErrorBody] : st \in {403, 404, 500}}
    \cup {[sent |-> TRUE, status |-> 200, body |-> b] : b \in ApiBodies}

RawBody == [readable |-> TRUE, text |-> "Copyright (c) 2016 Alex Crichton\n"]

RawResponses ==
    {[sent |-> FALSE],
     [sent |-> TRUE, status |-> 200, body |-> RawBody],
     [sent |-> TRUE, status |-> 200, body |-> [readable |-> FALSE, text |-> ""]],
     [sent |-> TRUE, status |-> 403, body |-> ErrorBody],
     [sent |-> TRUE, status |-> 404, body |-> NotFoundBody]}

RawScripts == SeqsUpTo(RawResponses, MaxRawScript)

\* A license endpoint that answers with a document of the given SPDX id.
ApiDocument(id) ==
    [sent |-> TRUE, status |-> 200,
     body |-> [json |-> TRUE, download_url |-> DownloadUrl, content |-> B64Wrapped,
               encoding |-> "base64", spdx_id |-> id]]

NetWithDocument(id) == [api |-> ApiDocument(id), raw |-> <<>>]

NetNotFound == [api |-> [sent |-> TRUE, status |-> 404, body |-> ErrorBody], raw |-> <<>>]

RepoUrls ==
    {None} \cup {Some(u) : u \in
        {"https://github.com/o/r", "https://github.com/o/r.git", "https://github.com/o/r/",
         "https://github.com/o/r.git/", "https://github.com/o/r.rs", "https://github.com/o/r/tree",
         "https://github.com/o", "http://github.com/o/r", "https://gitlab.com/o/r",
         "https://github.com/maghoff/cargo-license-hound"}}


(***************************************************************************)
(* The inputs: lock-file packages with what cargo finds for them, license  *)
(* texts, and the responses of the two GitHub hosts.                       *)
(***************************************************************************)
RECURSIVE Concats(_, _)
Concats(parts, n) ==
    IF n = 0 THEN {""}
    ELSE Concats(parts, n - 1) \cup {s \o p : s \in Concats(parts, n - 1), p \in parts}

TextParts == {"Copyright (c) 2020 X", "MIT License", "COPY", "right", "//", " ", "\n"}

Texts == Concats(TextParts, MaxTextParts)

DeclIds == {"MIT", "MPL-2.0", "BSD-3-Clause", "Apache-2.0", "mit"}

DeclSeps == {" OR ", "/"}

RECURSIVE Decls(_)
Decls(n) ==
    IF n = 0 THEN {""}
    ELSE Decls(n - 1) \cup DeclIds
         \cup {d \o sep \o i : d \in Decls(n - 1) \ {""}, sep \in DeclSeps, i \in DeclIds}

FileNames == {"LICENSE", "LICENCE", "LICENSE-MIT", "LICENCE-MIT", "COPYING", "LICENSE.txt"}

FileKinds == {"notice", "plain", "unreadable"}

FileOf(name, kind) ==
    CASE kind = "notice" ->
            [readable |-> TRUE, text |-> "The License\n\nCopyright (c) 2020 " \o name \o "\n"]
      [] kind = "plain" ->
            [readable |-> TRUE, text |-> "Permission is hereby granted\n" \o name \o "\n"]
      [] kind = "unreadable" -> [readable |-> FALSE, text |-> ""]

\* The directories with at most n files.
FileMaps(n) ==
    UNION {{[f \in S |-> FileOf(f, k[f])] : k \in [S -> FileKinds]} :
             S \in {T \in SUBSET FileNames : Cardinality(T) <= n}}

NoFiles == [f \in {} |-> FileOf(f, "plain")]

GitHubRepoUrl == "https://github.com/o/r"

Metadatas ==
    {[homepage |-> None, repository |-> None, documentation |-> None],
     [homepage |-> None, repository |-> Some(GitHubRepoUrl), documentation |-> Some("https://docs.rs/r")],
     [homepage |-> Some("https://r.example"), repository |-> Some(GitHubRepoUrl), documentation |-> None]}

\* A package of the lock file, with what cargo downloads for it (crate) and
\* what the GitHub hosts answer for its repository (net).
Package(name, version, source, fetched, license, meta, files, net) ==
    [name |-> name, version |-> version, source |-> source,
     crate |-> [fetched |-> fetched, license |-> license, homepage |-> meta.homepage,
                repository |-> meta.repository, documentation |-> meta.documentation,
                files |-> files],
     net |-> net]

Registry == Some("registry+https://github.com/rust-lang/crates.io-index")

\* One package per way chase can end, under the two names of the lock file.
LockUniverse ==
    LET m0 == CHOOSE m \in Metadatas : ~m.repository.some
        m1 == CHOOSE m \in Metadatas : m.repository.some /\ ~m.homepage.some
        one(f, k) == [x \in {f} |-> FileOf(f, k)]
        shapes ==
            {<<None, TRUE, None, m0, NoFiles>>,
             <<Registry, FALSE, None, m0, NoFiles>>,
             <<Registry, TRUE, None, m0, one("LICENSE", "notice")>>,
             <<Registry, TRUE, Some("Apache-2.0"), m1, one("LICENSE", "notice")>>,
             <<Registry, TRUE, Some("MIT"), m0, NoFiles>>,
             <<Registry, TRUE, Some("MIT OR Apache-2.0"), m1, NoFiles>>,
             <<Registry, TRUE, Some("MPL-2.0"), m1, one("COPYING", "notice")>>,
             <<Registry, TRUE, Some("BSD-3-Clause"), m1, one("LICENSE", "plain")>>,
             <<Registry, TRUE, Some("MIT/Apache-2.0"), m1, one("LICENSE-MIT", "notice")>>,
             <<Registry, TRUE, Some("BSD-3-Clause"), m0, one("LICENCE", "notice")>>}
    IN {Package(n, "1.0.0", sh[1], sh[2], sh[3], sh[4], sh[5], NetWithDocument("MIT")) :
            n \in {"a", "b"}, sh \in shapes}

\* chase on one package: every declaration with a few directories, and the
\* two packages without a usable source.
ChaseArgs ==
    LET dirs == {f \in FileMaps(1) : DOMAIN f \subseteq {"LICENSE", "LICENCE-MIT"}}
    IN {Package("a", "1.0.0", Registry, TRUE, l, m, f, NetNotFound) :
            l \in {None} \cup {Some(d) : d \in Decls(MaxDeclParts)}, m \in Metadatas, f \in dirs}
       \cup {Package("a", "1.0.0", None, TRUE, None, m, NoFiles, NetNotFound) : m \in Metadatas}
       \cup {Package("a", "1.0.0", Registry, FALSE, None, m, NoFiles, NetNotFound) : m \in Metadatas}

\* hound_license_file on every directory, for a package without a repository
\* and for one whose GitHub repository has, or has not, a license document.
HoundArgs ==
    LET m0 == CHOOSE m \in Metadatas : ~m.repository.some
        m1 == CHOOSE m \in Metadatas : m.repository.some /\ ~m.homepage.some
        world(c) == <<<<m0, NetNotFound>>, <<m1, NetNotFound>>, <<m1, NetWithDocument(spdx_id(c))>>>>
    IN {[package |-> Package("a", "1.0.0", Registry, TRUE, Some(spdx_id(c)),
                             world(c)[w][1], f, world(c)[w][2]),
         chosen_license |-> c] :
            f \in FileMaps(MaxFiles), c \in LicenseId, w \in 1..3}

ApiArgs == {[chosen_license |-> c, resp |-> r] : c \in LicenseId, r \in ApiResponses}

RepoArgs == {[chosen_license |-> c, raw |-> r] : c \in LicenseId, r \in RawScripts}

CoreArgs ==
    {[repo_url |-> u, chosen_license |-> c, net |-> [api |-> a, raw |-> r]] :
        u \in RepoUrls, c \in LicenseId, a \in ApiResponses, r \in RawScripts}

(***************************************************************************)
(* The run of main: the lock file is read, chase maps over its packages    *)
(* in order, and the collected reports are written to stdout.              *)
(***************************************************************************)
NoCall == [fn |-> "main"]

Init ==
    /\ packages \in SeqsUpTo(LockUniverse, MaxPkgs)
    /\ idx = 1
    /\ pc = "map"
    /\ license_reports = <<>>
    /\ http = <<>>
    /\ arg = NoCall
    /\ ret = None

\* A map that keeps the reports of the successful packages only.
MainChase_skip_failures ==
    /\ pc = "map"
    /\ idx <= Len(packages)
    /\ ~chase_panics(packages[idx])
    /\ LET x == packages[idx]
           c == chase(x)
       IN /\ license_reports' =
                IF c.conclusion.ok
                THEN Append(license_reports,
                        [package_name |-> x.name, version |-> x.version,
                         conclusion |-> c.conclusion])
                ELSE license_reports
          /\ http' = http \o c.requests
    /\ idx' = idx + 1
    /\ UNCHANGED <<packages, pc, arg, ret>>

\* One turn of the map closure: chase returns and the report is collected.
MainChase ==
    /\ pc = "map"
    /\ idx <= Len(packages)
    /\ ~chase_panics(packages[idx])
    /\ LET x == packages[idx]
           c == chase(x)
       IN /\ license_reports' = Append(license_reports,
                [package_name |-> x.name, version |-> x.version, conclusion |-> c.conclusion])
          /\ http' = http \o c.requests
    /\ idx' = idx + 1
    /\ UNCHANGED <<packages, pc, arg, ret>>

\* An unwrap of chase fails: the process panics, nothing is written.
MainPanic ==
    /\ pc = "map"
    /\ idx <= Len(packages)
    /\ chase_panics(packages[idx])
    /\ pc' = "panic"
    /\ UNCHANGED <<packages, idx, license_reports, http, arg, ret>>

\* serde_json::to_writer(stdout, &license_reports)
MainWrite ==
    /\ pc = "map"
    /\ idx > Len(packages)
    /\ pc' = "done"
    /\ UNCHANGED <<packages, idx, license_reports, http, arg, ret>>

Next == MainChase \/ MainPanic \/ MainWrite

Spec == Init /\ [][Next]_vars

(***************************************************************************)
(* The functions of main.rs and license.rs, each applied to one input.     *)
(***************************************************************************)
CallArgs ==
    {[fn |-> "chase", package |-> p] : p \in ChaseArgs}
    \cup {[fn |-> "hound_license_file", package |-> a.package,
           chosen_license |-> a.chosen_license] : a \in HoundArgs}
    \cup {[fn |-> "recover_copyright_notice", license_text |-> t] : t \in Texts}
    \cup {[fn |-> "guess_filenames", id |-> c] : c \in LicenseId}

InitCalls ==
    /\ packages = <<>>
    /\ idx = 1
    /\ pc = "lib"
    /\ license_reports = <<>>
    /\ http = <<>>
    /\ arg \in CallArgs
    /\ ret = None

\* The call of fn has not returned yet.
Pending(fn) == pc = "lib" /\ arg.fn = fn /\ ~ret.some

CallChase ==
    /\ Pending("chase")
    /\ ret' = Some(IF chase_panics(arg.package) THEN [panic |-> TRUE]
                   ELSE [panic |-> FALSE, conclusion |-> chase(arg.package).conclusion,
                         requests |-> chase(arg.package).requests])
    /\ UNCHANGED <<packages, idx, pc, license_reports, http, arg>>

CallHoundLicenseFile ==
    /\ Pending("hound_license_file")
    /\ ret' = Some(hound_license_file(arg.package, arg.chosen_license))
    /\ UNCHANGED <<packages, idx, pc, license_reports, http, arg>>

CallRecoverCopyrightNotice ==
    /\ Pending("recover_copyright_notice")
    /\ ret' = Some(recover_copyright_notice(arg.license_text))
    /\ UNCHANGED <<packages, idx, pc, license_reports, http, arg>>

CallGuessFilenames ==
    /\ Pending("guess_filenames")
    /\ ret' = Some(guess_filenames(arg.id))
    /\ UNCHANGED <<packages, idx, pc, license_reports, http, arg>>

NextCalls ==
    CallChase \/ CallHoundLicenseFile \/ CallRecoverCopyrightNotice \/ CallGuessFilenames

SpecCalls == InitCalls /\ [][NextCalls]_vars

(***************************************************************************)
(* The probers of github.rs, each applied to one input.                    *)
(***************************************************************************)
GithubArgs ==
    {[fn |-> "license_file_from_license_api", chosen_license |-> a.chosen_license,
      resp |-> a.resp] : a \in ApiArgs}
    \cup {[fn |-> "license_file_from_github_repo", chosen_license |-> a.chosen_license,
           raw |-> a.raw] : a \in RepoArgs}
    \cup {[fn |-> "license_file_from_github_core", repo_url |-> a.repo_url,
           chosen_license |-> a.chosen_license, net |-> a.net] : a \in CoreArgs}

InitGithub ==
    /\ packages = <<>>
    /\ idx = 1
    /\ pc = "lib"
    /\ license_reports = <<>>
    /\ http = <<>>
    /\ arg \in GithubArgs
    /\ ret = None

CallLicenseApi ==
    /\ Pending("license_file_from_license_api")
    /\ ret' = Some(license_file_from_license_api("o", "r", "r", arg.chosen_license, arg.resp))
    /\ UNCHANGED <<packages, idx, pc, license_reports, http, arg>>

CallGithubRepo ==
    /\ Pending("license_file_from_github_repo")
    /\ ret' = Some(license_file_from_github_repo("o", "r", "r", arg.chosen_license, arg.raw))
    /\ UNCHANGED <<packages, idx, pc, license_reports, http, arg>>

CallGithubCore ==
    /\ Pending("license_file_from_github_core")
    /\ ret' = Some(license_file_from_github_core(arg.repo_url, "r", arg.chosen_license, arg.net))
    /\ UNCHANGED <<packages, idx, pc, license_reports, http, arg>>

NextGithub == CallLicenseApi \/ CallGithubRepo \/ CallGithubCore

SpecGithub == InitGithub /\ [][NextGithub]_vars

(***************************************************************************)
(* The claims.                                                             *)
(***************************************************************************)
Range(q) == {q[i] : i \in 1..Len(q)}

Returned(fn) == pc = "lib" /\ arg.fn = fn /\ ret.some

\* The SPDX codes of section 3 of the specification.
CanonicalSpdx == [Mit |-> "MIT", Bsd3Clause |-> "BSD-3-Clause", Mpl2 |-> "MPL-2.0"]

\* The names the local prober of main.rs tries that can be read.
LocalHits(package, chosen_license) ==
    {n \in Range(hound_candidates(chosen_license)) : read_file(package.crate.files, n).ok}

\* C1: when the local prober finds nothing and the package declares a
\* repository URL of the recognized pattern, the resolver runs the Hosted-API
\* prober and then, on no-match, the Hosted-Raw prober on the same owner and
\* repository; its result is the first success, and it fails only when all
\* of them found nothing.
C1_ResolverFallsBackToHostedProbers ==
    Returned("hound_license_file") =>
        LET p == arg.package
            repository == p.crate.repository
            hosted == license_file_from_github_core(repository, p.name, arg.chosen_license, p.net)
        IN (/\ LocalHits(p, arg.chosen_license) = {}
            /\ repository.some
            /\ URL_SCHEMA_captures(repository.v).some)
           => /\ ret.v.requests = hosted.requests
              /\ Len(ret.v.requests) >= 1
              /\ ret.v.result.ok <=> hosted.result.some
              /\ ret.v.result.ok => ret.v.result.v = hosted.result.v

\* C2: if a file the local prober tries can be read, the resolver returns a
\* readable local file with its content, tagged Crate, and issues no HTTP
\* request, also when the license endpoint of the package's repository
\* holds a matching document.
C2_LocalFileWinsWithoutNetwork ==
    Returned("hound_license_file") =>
        LET p == arg.package
        IN LocalHits(p, arg.chosen_license) # {}
           => /\ ret.v.result.ok
              /\ ret.v.result.v[1].tag = "Crate"
              /\ ret.v.result.v[1].name \in LocalHits(p, arg.chosen_license)
              /\ ret.v.result.v[2] = p.crate.files[ret.v.result.v[1].name].text
              /\ ret.v.requests = <<>>

\* C2: a readable local file, and a license endpoint that would have
\* answered with a matching document.
C2_Witness ==
    /\ Returned("hound_license_file")
    /\ LocalHits(arg.package, arg.chosen_license) # {}
    /\ license_file_from_github_core(arg.package.crate.repository, arg.package.name,
                                     arg.chosen_license, arg.package.net).result.some
    /\ ret.v.result.ok

\* The text of the well-formed contents.
PlainText(content) ==
    CASE content = B64Wrapped -> "The MIT License (MIT)\n\nCopyright (c) 2013 Ben Balter\n\n"
      [] content = "TUlU" -> "MIT"

\* A successful response whose body is a license document in base64 that
\* decodes to text.
WellFormed(resp) ==
    /\ resp.sent
    /\ resp.status = 200
    /\ resp.body.json
    /\ resp.body.encoding = "base64"
    /\ resp.body.content \in {B64Wrapped, "TUlU"}

\* C3: on a well-formed successful response the Hosted-API prober returns
\* GitHubApi(download URL) with the decoded text exactly when the reported
\* spdx_id equals, case-sensitively, the SPDX code of the chosen license; on
\* a mismatch it returns no-match with a diagnostic.
C3_ApiSuccessIffSpdxIdEqual ==
    (Returned("license_file_from_license_api") /\ WellFormed(arg.resp)) =>
        LET body == arg.resp.body
        IN IF body.spdx_id = CanonicalSpdx[arg.chosen_license]
           THEN ret.v.result = Some(<<[tag |-> "GitHubApi", url |-> body.download_url],
                                     PlainText(body.content)>>)
           ELSE ret.v.result = None /\ ret.v.diag # <<>>

\* C3: both cases: a document that matches, and one that differs from the
\* chosen license in the case of its letters only.
C3_Witness ==
    /\ Returned("license_file_from_license_api")
    /\ WellFormed(arg.resp)
    /\ arg.chosen_license = "Mit"
    /\ arg.resp.body.content = B64Wrapped
    /\ arg.resp.body.spdx_id = "MIT"
    /\ ret.v.result.some

C3_WitnessMismatch ==
    /\ Returned("license_file_from_license_api")
    /\ WellFormed(arg.resp)
    /\ arg.chosen_license = "Mit"
    /\ arg.resp.body.spdx_id = "mit"
    /\ ~ret.v.result.some

\* C4: a failure of one package never aborts the run: when the run has
\* ended, it has written a report entry for every package.
C4_EveryFailureIsCaptured ==
    pc # "map" => (pc = "done" /\ Len(license_reports) = Len(packages))

\* C5: the report collection mirrors the lock file: entry i carries the name
\* and version of package i, for every package handled so far, and the
\* collection written to stdout has one entry per package.
C5_ReportsMirrorLockFile ==
    /\ pc \in {"map", "done"} =>
        /\ Len(license_reports) = idx - 1
        /\ \A i \in 1..Len(license_reports) :
              /\ license_reports[i].package_name = packages[i].name
              /\ license_reports[i].version = packages[i].version
    /\ pc = "done" => Len(license_reports) = Len(packages)

\* C5: a written report of two packages with different names, the first
\* failed and the second succeeded.
C5_Witness ==
    /\ pc = "done"
    /\ Len(packages) = 2
    /\ packages[1].name # packages[2].name
    /\ ~license_reports[1].conclusion.ok
    /\ license_reports[2].conclusion.ok

\* The suffixes of section 3, the empty suffix last.
ClaimSuffixes(id) == IF id = "Mit" THEN <<"-MIT", "">> ELSE <<"">>

\* C6: guess_filenames is the product of the base names LICENSE, COPYING,
\* LICENCE, the suffixes of the license followed by the empty suffix, and
\* the extensions "" and ".txt", base name outermost and extension
\* innermost; it is not empty and starts with ("LICENSE", first suffix, "").
C6_GuessFilenamesIsOrderedProduct ==
    Returned("guess_filenames") =>
        LET bases == <<"LICENSE", "COPYING", "LICENCE">>
            sfx == ClaimSuffixes(arg.id)
            exts == <<"", ".txt">>
            S == Len(sfx)
            E == Len(exts)
            g == ret.v
        IN /\ Len(g) = Len(bases) * S * E
           /\ Len(g) > 0
           /\ g[1] = <<"LICENSE", sfx[1], "">>
           /\ \A i \in 1..Len(g) :
                 g[i] = <<bases[((i - 1) \div (S * E)) + 1],
                          sfx[(((i - 1) \div E) % S) + 1],
                          exts[((i - 1) % E) + 1]>>

\* C6: the license with a suffix of its own.
C6_Witness ==
    /\ Returned("guess_filenames")
    /\ arg.id = "Mit"
    /\ Len(ret.v) = 12
    /\ ret.v[3] = <<"LICENSE", "", "">>

\* id occurs in d, at any position.
Occurs(d, id) == \E i \in 1..Len(d) : \E j \in i..Len(d) : SubSeq(d, i, j) = id

\* The license a declaration classifies as, "none" when it holds none of the
\* three identifiers.
ClaimedLicense(d) ==
    IF Occurs(d, "MIT") THEN "Mit"
    ELSE IF Occurs(d, "MPL-2.0") THEN "Mpl2"
    ELSE IF Occurs(d, "BSD-3-Clause") THEN "Bsd3Clause"
    ELSE "none"

Declared(package) ==
    package.source.some /\ package.crate.fetched /\ package.crate.license.some

\* C7: chase classifies a declaration by the first of "MIT", "MPL-2.0",
\* "BSD-3-Clause" it contains, in that priority, wherever it stands in the
\* string, and concludes UnacceptableLicense(declaration) exactly when it
\* contains none.
C7_ClassifierPriority ==
    (Returned("chase") /\ Declared(arg.package)) =>
        LET d == arg.package.crate.license.v
            c == ret.v.conclusion
        IN /\ ~ret.v.panic
           /\ ClaimedLicense(d) = "none"
                <=> (~c.ok /\ c.err = [tag |-> "UnacceptableLicense", v |-> d])
           /\ c.ok => c.v.chosen_license = ClaimedLicense(d) /\ c.v.full_spdx_license = d
           /\ (~c.ok /\ ClaimedLicense(d) # "none")
                => c.err.tag \in {"UnableToRecoverLicenseFile", "UnableToRecoverAttribution"}

\* C7: the compound declaration of the specification, classified as Mit.
C7_Witness ==
    /\ Returned("chase")
    /\ Declared(arg.package)
    /\ arg.package.crate.license.v = "MIT OR Apache-2.0"
    /\ ret.v.conclusion.ok
    /\ ret.v.conclusion.v.chosen_license = "Mit"

\* C7: the identifier of highest priority stands last in the declaration.
C7_WitnessPosition ==
    /\ Returned("chase")
    /\ Declared(arg.package)
    /\ arg.package.crate.license.v = "BSD-3-Clause OR MIT"
    /\ ret.v.conclusion.ok
    /\ ret.v.conclusion.v.chosen_license = "Mit"

\* A line as the extractor reads it: a comment marker at its start removed,
\* then trimmed.
ClaimLine(x) == trim(IF Len(x) >= 2 /\ SubSeq(x, 1, 2) = "//" THEN SubSeq(x, 3, Len(x)) ELSE x)

\* The lines of a text, processed.
ClaimLines(text) == LET ls == lines(text) IN [i \in 1..Len(ls) |-> ClaimLine(ls[i])]

\* <<i, j>> is a maximal run of adjacent non-empty lines.
IsRun(L, i, j) ==
    /\ i <= j
    /\ \A k \in i..j : L[k] # ""
    /\ (i = 1 \/ L[i - 1] = "")
    /\ (j = Len(L) \/ L[j + 1] = "")

RECURSIVE JoinLines(_, _, _)
JoinLines(L, i, j) == IF i = j THEN L[i] ELSE JoinLines(L, i, j - 1) \o " " \o L[j]

\* "copyright" occurs in x, in whatever case.
HasCopyright(x) ==
    \E i \in 1..(Len(x) - 8) :
        \A k \in 1..9 : SubSeq(x, i + k - 1, i + k - 1)
                            \in {SubSeq("copyright", k, k), SubSeq("COPYRIGHT", k, k)}

\* The runs of a text whose paragraph contains "copyright".
CopyrightRuns(L) ==
    {r \in (1..Len(L)) \X (1..Len(L)) :
        IsRun(L, r[1], r[2]) /\ HasCopyright(JoinLines(L, r[1], r[2]))}

\* C8: the extractor returns the first paragraph that contains "copyright"
\* in whatever case, a paragraph being a maximal run of adjacent non-empty
\* processed lines joined by single spaces; it fails with
\* UnableToRecoverAttribution(text) exactly when there is none; the single
\* line "Copyright (c) 2020 X" is returned as it is.
C8_FirstCopyrightParagraph ==
    Returned("recover_copyright_notice") =>
        LET text == arg.license_text
            L == ClaimLines(text)
            runs == CopyrightRuns(L)
        IN /\ IF runs = {}
              THEN ret.v = Err([tag |-> "UnableToRecoverAttribution", v |-> text])
              ELSE LET r == CHOOSE r \in runs : \A q \in runs : r[1] <= q[1]
                   IN ret.v = Ok(JoinLines(L, r[1], r[2]))
           /\ text = "Copyright (c) 2020 X" => ret.v = Ok("Copyright (c) 2020 X")

\* C8: a paragraph of two lines with the notice in its second line.
C8_WitnessMerged ==
    /\ Returned("recover_copyright_notice")
    /\ arg.license_text = "MIT License\nCopyright (c) 2020 X"
    /\ ret.v = Ok("MIT License Copyright (c) 2020 X")

\* C8: the paragraph returned is not the first of the text.
C8_Witness ==
    /\ Returned("recover_copyright_notice")
    /\ arg.license_text = "MIT License\n\nCopyright (c) 2020 X"
    /\ ret.v = Ok("Copyright (c) 2020 X")

Forbidden(resp) == resp.sent /\ resp.status = 403

\* C9: a 403 to a candidate ends the Hosted-Raw prober: it returns no-match
\* and requests no candidate after that one.
C9_ForbiddenAbortsRawProber ==
    Returned("license_file_from_github_repo") =>
        \A k \in 1..Len(arg.raw) :
            (k <= Len(ret.v.requests) /\ Forbidden(arg.raw[k]))
                => /\ ret.v.result = None
                   /\ Len(ret.v.requests) = k

\* The candidate names of guess_filenames, in its order.
GuessedNames(chosen_license) ==
    LET g == guess_filenames(chosen_license)
    IN [k \in 1..Len(g) |-> g[k][1] \o g[k][2] \o g[k][3]]

\* C10: the local prober returns the name and content of the first name of
\* guess_filenames, in its order, that can be read in the package directory,
\* and no-match exactly when none of them can be read.
C10_LocalProberFollowsGuessFilenames ==
    Returned("hound_license_file") =>
        LET names == GuessedNames(arg.chosen_license)
            files == arg.package.crate.files
            hits == {k \in 1..Len(names) : read_file(files, names[k]).ok}
        IN IF hits = {} THEN ~ret.v.result.ok
           ELSE LET k == CHOOSE k \in hits : \A j \in hits : k <= j
                IN ret.v.result = Ok(<<[tag |-> "Crate", name |-> names[k]],
                                       files[names[k]].text>>)

\* The owner and repository of the repository URLs that name one.
ClaimRepo(url) ==
    CASE url \in {"https://github.com/o/r", "https://github.com/o/r.git",
                  "https://github.com/o/r/", "https://github.com/o/r.git/"}
            -> Some(<<"o", "r">>)
      [] url = "https://github.com/maghoff/cargo-license-hound"
            -> Some(<<"maghoff", "cargo-license-hound">>)
      [] OTHER -> None

\* The candidate URLs of the raw host, in the order of section 4.1: base
\* name outermost, extension innermost.
ClaimRawUrls(owner, repo, id) ==
    LET bases == <<"LICENSE", "COPYING", "LICENCE">>
        sfx == ClaimSuffixes(id)
        exts == <<"", ".txt">>
        S == Len(sfx)
        E == Len(exts)
    IN [i \in 1..(Len(bases) * S * E) |->
            "https://raw.githubusercontent.com/" \o owner \o "/" \o repo \o "/master/"
                \o bases[((i - 1) \div (S * E)) + 1]
                \o sfx[(((i - 1) \div E) % S) + 1]
                \o exts[((i - 1) % E) + 1]]

ClaimLicenseUrl(owner, repo) ==
    "https://api.github.com/repos/" \o owner \o "/" \o repo \o "/license"

\* The outcomes of the license endpoint that are no success: the request
\* failed, the status is not 2xx, the body is no license document, its
\* encoding is not base64, or its content does not decode to text.
ApiNonSuccess(resp) ==
    \/ ~resp.sent
    \/ resp.status < 200
    \/ resp.status > 299
    \/ ~resp.body.json
    \/ resp.body.encoding # "base64"
    \/ resp.body.content \in {"TU!U", "/w=="}

\* C11: every outcome of the license endpoint that is no success makes the
\* Hosted-API prober return no-match after a single request, and
\* license_file_from_github_core then runs the Hosted-Raw prober for the
\* same owner and repository: its requests follow the one to the endpoint,
\* and its result is the result.
C11_ApiFailureIsNoMatchThenRaw ==
    /\ Returned("license_file_from_license_api") =>
          /\ ret.v.requests = <<ClaimLicenseUrl("o", "r")>>
          /\ ApiNonSuccess(arg.resp) => ret.v.result = None
    /\ (Returned("license_file_from_github_core") /\ arg.repo_url.some) =>
          LET on == ClaimRepo(arg.repo_url.v)
          IN (on.some /\ ApiNonSuccess(arg.net.api)) =>
                LET urls == ClaimRawUrls(on.v[1], on.v[2], arg.chosen_license)
                    rq == ret.v.requests
                IN /\ Len(rq) >= 2
                   /\ rq[1] = ClaimLicenseUrl(on.v[1], on.v[2])
                   /\ \A i \in 2..Len(rq) : rq[i] = urls[i - 1]
                   /\ ret.v.result.some =>
                         ret.v.result.v[1] = [tag |-> "GitHubRepo", url |-> rq[Len(rq)]]
                   /\ ~ret.v.result.some => Len(rq) = Len(urls) + 1

\* C11: a document of the right license whose content is no UTF-8, and a
\* raw host that has the second candidate.
C11_Witness ==
    /\ Returned("license_file_from_github_core")
    /\ arg.repo_url = Some("https://github.com/maghoff/cargo-license-hound")
    /\ arg.net.api.sent
    /\ arg.net.api.status = 200
    /\ arg.net.api.body.json
    /\ arg.net.api.body.encoding = "base64"
    /\ arg.net.api.body.content = "/w=="
    /\ arg.net.api.body.spdx_id = CanonicalSpdx[arg.chosen_license]
    /\ Len(ret.v.requests) = 3
    /\ ret.v.result.some

\* C11: the request to the endpoint failed.
C11_WitnessSendFailure ==
    /\ Returned("license_file_from_github_core")
    /\ arg.repo_url = Some("https://github.com/o/r.git")
    /\ ~arg.net.api.sent
    /\ Len(ret.v.requests) = 7
    /\ ~ret.v.result.some

\* C11: an encoding other than base64.
C11_WitnessEncoding ==
    /\ Returned("license_file_from_license_api")
    /\ arg.resp.sent
    /\ arg.resp.status = 200
    /\ arg.resp.body.json
    /\ arg.resp.body.encoding = "utf-8"
    /\ arg.resp.body.spdx_id = CanonicalSpdx[arg.chosen_license]
    /\ ret.v.result = None

\* The first position of the script, within the first n, that satisfies P;
\* 0 when there is none. Positions past the script's end answer 404.
ClaimFirst(raw, n, P(_)) ==
    LET hits == {k \in 1..Len(raw) : k <= n /\ P(raw[k])}
    IN IF hits = {} THEN 0 ELSE CHOOSE k \in hits : \A h \in hits : k <= h

Claim2xx(resp) == resp.sent /\ resp.status >= 200 /\ resp.status <= 299

ClaimReadable2xx(resp) == Claim2xx(resp) /\ resp.body.readable

\* The Hosted-Raw prober stops at position first of the candidate URLs and
\* returns that candidate with the body of its response; with first = 0 it
\* requests every candidate and returns no-match.
ClaimRawOutcome(first) ==
    LET urls == ClaimRawUrls("o", "r", arg.chosen_license)
    IN IF first = 0
       THEN /\ ret.v.requests = urls
            /\ ret.v.result = None
       ELSE /\ ret.v.requests = SubSeq(urls, 1, first)
            /\ ret.v.result = Some(<<[tag |-> "GitHubRepo", url |-> urls[first]],
                                     arg.raw[first].body.text>>)

\* The prober prints one diagnostic for each 403 it received and nothing
\* for any other response.
ClaimRawSilence ==
    /\ \A i \in 1..Len(ret.v.diag) : ret.v.diag[i] = "forbidden"
    /\ Len(ret.v.diag) =
          Cardinality({k \in 1..Len(arg.raw) :
                          k <= Len(ret.v.requests) /\ Forbidden(arg.raw[k])})

\* C12 as stated: the Hosted-Raw prober requests the candidates of
\* guess_filenames in order on the master branch, moves on silently after a
\* non-2xx response other than 403, returns the candidate of the first 2xx
\* response with its body, and returns no-match only when no candidate
\* answered 2xx.
C12_FirstSuccessStatusEndsProbing ==
    Returned("license_file_from_github_repo") =>
        /\ ClaimRawOutcome(ClaimFirst(arg.raw, Len(ClaimRawUrls("o", "r", arg.chosen_license)),
                                      Claim2xx))
        /\ ClaimRawSilence

\* C12, amended: the Hosted-Raw prober requests the candidates of
\* guess_filenames in order on the master branch, moves on silently after a
\* failed request, after a non-2xx response other than 403 and after a 2xx
\* response whose body cannot be read as text, returns the candidate of the
\* first 2xx response whose body can be read, with that body, and returns
\* no-match only when no candidate gave such a response.
C12_FirstReadableSuccessEndsProbing ==
    Returned("license_file_from_github_repo") =>
        /\ ClaimRawOutcome(ClaimFirst(arg.raw, Len(ClaimRawUrls("o", "r", arg.chosen_license)),
                                      ClaimReadable2xx))
        /\ ClaimRawSilence

\* C12: the first candidate is missing and the second is found.
C12_Witness ==
    /\ Returned("license_file_from_github_repo")
    /\ Len(arg.raw) = 2
    /\ arg.raw[1].sent
    /\ arg.raw[1].status = 404
    /\ ClaimReadable2xx(arg.raw[2])
    /\ Len(ret.v.requests) = 2
    /\ ret.v.result.some
    /\ ret.v.diag = <<>>

\* C12: the first candidate answers 2xx with a body that cannot be read.
C12_WitnessUnreadable ==
    /\ Returned("license_file_from_github_repo")
    /\ Len(arg.raw) = 2
    /\ Claim2xx(arg.raw[1])
    /\ ~arg.raw[1].body.readable
    /\ ClaimReadable2xx(arg.raw[2])
    /\ Len(ret.v.requests) = 2
    /\ ret.v.result.some

\* C12: no candidate is found.
C12_WitnessExhausted ==
    /\ Returned("license_file_from_github_repo")
    /\ arg.chosen_license = "Mpl2"
    /\ arg.raw = <<>>
    /\ Len(ret.v.requests) = 6
    /\ ret.v.result = None

====
